---- MODULE Spec2Model ----
(***************************************************************************)
(* Model of the psqs queue machinery:                                      *)
(*   - Dump, the background deletion worker  (src/src/queue/drain/dump.rs) *)
(*   - submit_inner, the qsub retry loop     (src/src/queue/pbs.rs)        *)
(*   - Pbs::status, the qstat table parser   (src/src/queue/pbs.rs)        *)
(* Each component has its own specification (SpecDump, SpecSubmit,         *)
(* SpecStatus); the variables of the other components stay at their        *)
(* initial values.                                                         *)
(***************************************************************************)
EXTENDS Integers, Sequences, FiniteSets, TLC

VARIABLES
    \* ---- Dump ----
    mainpc,        \* position of the thread that owns the Dump
    workerpc,      \* position of the spawned worker thread
    queue,         \* contents of the unbounded mpsc channel (sender -> receiver)
    senderOpen,    \* the Sender<String> has not been dropped
    signalWaiting, \* a signal.send(()) is blocked on the zero-capacity channel
    exitOpen,      \* the `exit` Receiver<()> has not been dropped
    file,          \* the filename the worker has dequeued (loop variable)
    fs,            \* files that exist on disk
    sent,          \* history: filenames passed to send, in order
    attempted,     \* history: filenames passed to remove_file, in order
    outcome,       \* history: result of each remove_file, parallel to attempted
    stopReceived,  \* history: exit.try_recv() returned Ok
    \* ---- submit_inner ----
    subpc,         \* position in submit: "call", "sleep", "done", "failed"
    retries,       \* the local `retries`
    sleep_int,     \* the sleep_int argument, seconds
    last,          \* result of the latest cmd.output(): "none", "spawn", "nonzero", "ok"
    stdout,        \* what the subprocess wrote to stdout on the latest invocation
    jobid,         \* the String returned by submit
    invocations,   \* history: number of cmd.output() calls of this submit
    slept,         \* history: seconds slept by this submit
    allNonZero,    \* history: every invocation of this submit exited non-zero
    first,         \* history: stdout and id of the latest first-attempt success
    \* ---- Pbs::status ----
    statpc,        \* position in status: "idle", "loop", "returned", "panicked"
    output,        \* the String returned by stat_cmd
    rest,          \* lines the `for line in lines` loop has not consumed yet
    ret,           \* the HashSet `ret`
    \* ---- write_submit_script ----
    swpc,          \* "idle", "written", "failed"
    variant,       \* the impl called: "pbs_molpro", "pbs_mopac", "local"
    template,      \* self.template: [some |-> BOOLEAN, text |-> chars]
    scriptName,    \* the `filename` argument
    infiles,       \* the `infiles` argument
    script,        \* contents of the file written
    \* ---- ChunkScheduler ----
    cfg,           \* constructor arguments and the batch: backend, program, n,
                   \* chunk_size, job_limit, no_del, bad (jobs whose output is bad)
    schedpc,       \* "head", "submit", "poll", "terminated", "panicked"
    abortCause,    \* "none", "submit", "status", "read_output"
    pending,       \* number of jobs not yet put in a chunk
    chunks,        \* chunks made so far: [lo, hi, id, out]; out = ids outstanding
    outcomes,      \* per job: "none", "result" (JobResult), "error" (JobError)
    nrecorded,     \* history: per job, how many outcomes were recorded
    dumped,        \* history: files sent to the Dump sink
    polled,        \* history: status was called at least once
    queued,        \* chunks the external scheduler still listed at the last poll
    pollForm,      \* shape of the last status output: "table", "empty", ...
    treated        \* history: chunks the last poll treated as finished

dumpVars == <<mainpc, workerpc, queue, senderOpen, signalWaiting, exitOpen,
              file, fs, sent, attempted, outcome, stopReceived>>

submitVars == <<subpc, retries, sleep_int, last, stdout, jobid, invocations,
                slept, allNonZero, first>>

statusVars == <<statpc, output, rest, ret>>

writerVars == <<swpc, variant, template, scriptName, infiles, script>>

schedVars == <<cfg, schedpc, abortCause, pending, chunks, outcomes, nrecorded,
               dumped, polled, queued, pollForm, treated>>

vars == <<dumpVars, submitVars, statusVars, writerVars, schedVars>>

\* what the steps of one component leave alone
notDump == <<submitVars, statusVars, writerVars, schedVars>>
notSubmit == <<dumpVars, statusVars, writerVars, schedVars>>
notStatus == <<dumpVars, submitVars, writerVars, schedVars>>
notWriter == <<dumpVars, submitVars, statusVars, schedVars>>
notSched == <<dumpVars, submitVars, statusVars, writerVars>>

----------------------------------------------------------------------------
\* Bounds
MaxSends == 3
Files == {"a", "b"}
NoFile == "-"
MaxOut == 3
MaxLines == 4
MaxPieces == 2
MaxJobs == 4
MaxChunk == 2
MaxLimit == 3

----------------------------------------------------------------------------
\* Dump

\* (variant: the newest message is taken first)
DequeueNewest(q) == [head |-> q[Len(q)], rest |-> SubSeq(q, 1, Len(q) - 1)]

\* mpsc::channel(): the receiver takes the oldest queued message
Dequeue(q) == [head |-> Head(q), rest |-> Tail(q)]

\* (variant: disconnection is reported before the backlog is delivered)
RecvDropsBacklog(q, open) ==
    IF ~open THEN "disconnected"
    ELSE IF q # <<>> THEN "msg"
    ELSE "block"

\* Receiver::recv as driven by `for file in receiver`:
\* a queued message is delivered even after the sender is dropped; the
\* iteration ends only when the queue is empty and the sender is gone.
RecvResult(q, open) ==
    IF q # <<>> THEN "msg"
    ELSE IF ~open THEN "disconnected"
    ELSE "block"

\* (variant: the stop flag reads as set whether or not a send is parked)
TryRecvSpurious(waiting) == TRUE

\* exit.try_recv() on the zero-capacity channel: Ok only while a sender is
\* parked in send
TryRecvOk(waiting) == waiting

\* (variant: a bounded channel of capacity 1, whose send waits for room)
SendReadyBounded(q) == Len(q) < 1

\* mpsc::channel() is unbounded: Sender::send never waits for room
SendReady(q) == TRUE

\* (variant: the result of remove_file is unwrapped)
AfterRemoveUnwrap(res) == IF res = "err" THEN "panicked" ELSE "recv"

\* what the worker does after remove_file returned res: the error is printed
\* and the loop continues
AfterRemove(res) == "recv"

\* Dump::new: both channels open, worker blocked in the first recv
DumpInit ==
    /\ mainpc = "running"
    /\ workerpc = "recv"
    /\ queue = <<>>
    /\ senderOpen = TRUE
    /\ signalWaiting = FALSE
    /\ exitOpen = TRUE
    /\ file = NoFile
    /\ fs \in SUBSET Files
    /\ sent = <<>>
    /\ attempted = <<>>
    /\ outcome = <<>>
    /\ stopReceived = FALSE

\* Dump::send: self.sender.send(s).unwrap()
Send ==
    /\ mainpc = "running"
    /\ Len(sent) < MaxSends
    /\ SendReady(queue)
    /\ \E s \in Files :
         IF workerpc \in {"exited", "panicked"}
         THEN /\ mainpc' = "panicked"
              /\ UNCHANGED <<queue, sent>>
         ELSE /\ queue' = Append(queue, s)
              /\ sent' = Append(sent, s)
              /\ UNCHANGED mainpc
    /\ UNCHANGED <<workerpc, senderOpen, signalWaiting, exitOpen, file, fs,
                   attempted, outcome, stopReceived>>
    /\ UNCHANGED notDump

\* Dump::shutdown, drop(self.sender)
ShutdownDropSender ==
    /\ mainpc = "running"
    /\ senderOpen' = FALSE
    /\ mainpc' = "signal"
    /\ UNCHANGED <<workerpc, queue, signalWaiting, exitOpen, file, fs, sent,
                   attempted, outcome, stopReceived>>
    /\ UNCHANGED notDump

\* Dump::shutdown, self.signal.send(()).unwrap(): entry into send.  With the
\* receiver gone send returns Err and unwrap panics; otherwise the sender
\* parks until the message is taken.
ShutdownSignalSend ==
    /\ mainpc = "signal"
    /\ IF exitOpen
       THEN /\ signalWaiting' = TRUE
            /\ mainpc' = "blocked"
       ELSE /\ mainpc' = "panicked"
            /\ UNCHANGED signalWaiting
    /\ UNCHANGED <<workerpc, queue, senderOpen, exitOpen, file, fs, sent,
                   attempted, outcome, stopReceived>>
    /\ UNCHANGED notDump

\* Dump::shutdown, self.signal.send(()).unwrap(): the parked send returns,
\* Ok when the worker took the message, Err (panic) when the worker dropped
\* `exit` without taking it.  Then drop(self.signal).
ShutdownSignalReturn ==
    /\ mainpc = "blocked"
    /\ \/ /\ ~signalWaiting
          /\ mainpc' = "join"
          /\ UNCHANGED signalWaiting
       \/ /\ signalWaiting
          /\ ~exitOpen
          /\ mainpc' = "panicked"
          /\ signalWaiting' = FALSE
    /\ UNCHANGED <<workerpc, queue, senderOpen, exitOpen, file, fs, sent,
                   attempted, outcome, stopReceived>>
    /\ UNCHANGED notDump

\* Dump::shutdown, self.handle.join().unwrap()
ShutdownJoin ==
    /\ mainpc = "join"
    /\ workerpc \in {"exited", "panicked"}
    /\ mainpc' = IF workerpc = "exited" THEN "done" ELSE "panicked"
    /\ UNCHANGED <<workerpc, queue, senderOpen, signalWaiting, exitOpen, file,
                   fs, sent, attempted, outcome, stopReceived>>
    /\ UNCHANGED notDump

\* worker: `for file in receiver`, one call of next()
WorkerRecv ==
    /\ workerpc = "recv"
    /\ LET r == RecvResult(queue, senderOpen) IN
         /\ r # "block"
         /\ IF r = "msg"
            THEN /\ file' = Dequeue(queue).head
                 /\ queue' = Dequeue(queue).rest
                 /\ workerpc' = "check"
                 /\ UNCHANGED exitOpen
            ELSE \* loop ends, closure returns, `exit` is dropped
                 /\ workerpc' = "exited"
                 /\ exitOpen' = FALSE
                 /\ UNCHANGED <<file, queue>>
    /\ UNCHANGED <<mainpc, senderOpen, signalWaiting, fs, sent, attempted,
                   outcome, stopReceived>>
    /\ UNCHANGED notDump

\* worker: if exit.try_recv().is_ok() { return; }
WorkerTryRecv ==
    /\ workerpc = "check"
    /\ IF TryRecvOk(signalWaiting)
       THEN \* return: the receiver (with its backlog) and `exit` are dropped
            /\ signalWaiting' = FALSE
            /\ stopReceived' = TRUE
            /\ workerpc' = "exited"
            /\ exitOpen' = FALSE
       ELSE /\ workerpc' = "remove"
            /\ UNCHANGED <<signalWaiting, stopReceived, exitOpen>>
    /\ UNCHANGED <<mainpc, queue, senderOpen, file, fs, sent, attempted,
                   outcome>>
    /\ UNCHANGED notDump

\* worker: std::fs::remove_file(&file), and the eprintln! on Err.
\* A missing file always fails; an existing one is removed or fails with
\* another I/O error.
WorkerRemove ==
    /\ workerpc = "remove"
    /\ \E res \in {"ok", "err"} :
         /\ res = "ok" => file \in fs
         /\ fs' = IF res = "ok" THEN fs \ {file} ELSE fs
         /\ attempted' = Append(attempted, file)
         /\ outcome' = Append(outcome, res)
         /\ workerpc' = AfterRemove(res)
    /\ UNCHANGED <<mainpc, queue, senderOpen, signalWaiting, exitOpen, file,
                   sent, stopReceived>>
    /\ UNCHANGED notDump

DumpNext ==
    \/ Send
    \/ ShutdownDropSender
    \/ ShutdownSignalSend
    \/ ShutdownSignalReturn
    \/ ShutdownJoin
    \/ WorkerRecv
    \/ WorkerTryRecv
    \/ WorkerRemove

----------------------------------------------------------------------------
\* submit_inner

\* let mut retries = 5;
Retries == 5

\* characters of a subprocess's stdout; Bad stands for a byte sequence that
\* is not valid UTF-8
Bad == "?"
Chars == {"1", "2", " "}
IsWhitespace(c) == c \in {" ", "\n", "\t", "\r"}

\* all strings over cs of length at most n
RECURSIVE Strings(_, _)
Strings(cs, n) ==
    IF n = 0 THEN {<<>>}
    ELSE LET shorter == Strings(cs, n - 1) IN
         shorter \cup {Append(t, c) : t \in {u \in shorter : Len(u) = n - 1}, c \in cs}

YourJob == <<"y","o","u","r"," ","j","o","b"," ","1","2","3","4","5"," ",
             "s","u","b","m","i","t","t","e","d">>
YourJobIs == <<"y","o","u","r"," ","j","o","b"," ","1","2","3","4","5","\n">>
Id12345 == <<"1","2","3","4","5">>
Submitted == <<"s","u","b","m","i","t","t","e","d">>

\* stdout of a zero-exit run of the submit command
Stdouts == Strings(Chars, MaxOut) \cup {YourJob, YourJobIs, <<"1", Bad>>}
\* stdout of a non-zero-exit run
FailOuts == {<<>>, <<"2">>}
SleepInts == {1, 2}

\* "no jobid"
NoJobid == <<"n","o"," ","j","o","b","i","d">>
NoResult == <<>>

\* std::str::from_utf8(&s.stdout) is Ok
Utf8Valid(s) == \A i \in 1..Len(s) : s[i] # Bad

\* str::trim
RECURSIVE TrimStart(_)
TrimStart(s) ==
    IF s # <<>> /\ IsWhitespace(Head(s)) THEN TrimStart(Tail(s)) ELSE s
RECURSIVE TrimEnd(_)
TrimEnd(s) ==
    IF s # <<>> /\ IsWhitespace(s[Len(s)])
    THEN TrimEnd(SubSeq(s, 1, Len(s) - 1)) ELSE s
Trim(s) == TrimEnd(TrimStart(s))

\* str::split_whitespace, collected: the non-empty maximal runs of
\* non-whitespace characters, left to right.  cur is the run being read.
RECURSIVE SplitFrom(_, _, _)
SplitFrom(s, cur, toks) ==
    IF s = <<>> THEN (IF cur = <<>> THEN toks ELSE Append(toks, cur))
    ELSE IF IsWhitespace(Head(s))
         THEN SplitFrom(Tail(s), <<>>, IF cur = <<>> THEN toks ELSE Append(toks, cur))
         ELSE SplitFrom(Tail(s), Append(cur, Head(s)), toks)
SplitWhitespace(s) == SplitFrom(s, <<>>, <<>>)

\* (variant: the first token is taken)
JobIdFirstToken(out) ==
    LET toks == SplitWhitespace(Trim(out)) IN
    IF toks = <<>> THEN NoJobid ELSE toks[1]

\* raw.split_whitespace().last().unwrap_or("no jobid")
JobId(out) ==
    LET toks == SplitWhitespace(Trim(out)) IN
    IF toks = <<>> THEN NoJobid ELSE toks[Len(toks)]

\* (variant: output of earlier attempts is kept in front of the new output)
CaptureAppend(old, new) == old \o new

\* cmd.output(): each invocation collects the stdout of that run only
Capture(old, new) == new

\* (variant: one retry too many)
CanRetryInclusive(r) == r >= 0
\* (variant: one retry too few)
CanRetryButOne(r) == r > 1

\* if retries > 0
CanRetry(r) == r > 0

\* entry of submit / submit_inner
SubmitInit ==
    /\ subpc = "call"
    /\ retries = Retries
    /\ sleep_int \in SleepInts
    /\ last = "none"
    /\ stdout = <<>>
    /\ jobid = NoResult
    /\ invocations = 0
    /\ slept = 0
    /\ allNonZero = TRUE
    /\ first = [set |-> FALSE, out |-> <<>>, id |-> NoResult]

\* cmd.output() is Err(e): return Err(e), which submit unwraps
OutputSpawnError ==
    /\ subpc = "call"
    /\ last' = "spawn"
    /\ stdout' = <<>>
    /\ invocations' = invocations + 1
    /\ allNonZero' = FALSE
    /\ subpc' = "failed"
    /\ UNCHANGED <<retries, sleep_int, jobid, slept, first>>
    /\ UNCHANGED notSubmit

\* cmd.output() is Ok(s) with !s.status.success()
OutputNonZero ==
    /\ subpc = "call"
    /\ \E o \in FailOuts :
         /\ last' = "nonzero"
         /\ stdout' = o
         /\ invocations' = invocations + 1
         /\ IF CanRetry(retries)
            THEN /\ retries' = retries - 1
                 /\ subpc' = "sleep"
            ELSE /\ subpc' = "failed"
                 /\ UNCHANGED retries
    /\ UNCHANGED <<sleep_int, jobid, slept, allNonZero, first>>
    /\ UNCHANGED notSubmit

\* std::thread::sleep(Duration::from_secs(sleep_int as u64)); continue
Sleep ==
    /\ subpc = "sleep"
    /\ slept' = slept + sleep_int
    /\ subpc' = "call"
    /\ UNCHANGED <<retries, sleep_int, last, stdout, jobid, invocations,
                   allNonZero, first>>
    /\ UNCHANGED notSubmit

\* cmd.output() is Ok(s) with s.status.success()
OutputSuccess ==
    /\ subpc = "call"
    /\ \E o \in Stdouts :
         LET got == Capture(stdout, o) IN
         /\ last' = "ok"
         /\ stdout' = o
         /\ invocations' = invocations + 1
         /\ allNonZero' = FALSE
         /\ IF Utf8Valid(got)
            THEN /\ jobid' = JobId(got)
                 /\ subpc' = "done"
            ELSE \* from_utf8(..).unwrap() panics
                 /\ subpc' = "failed"
                 /\ UNCHANGED jobid
    /\ UNCHANGED <<retries, sleep_int, slept, first>>
    /\ UNCHANGED notSubmit

\* the caller submits the next script: a fresh call of submit
SubmitAgain ==
    /\ subpc = "done"
    /\ first' = IF invocations = 1
                THEN [set |-> TRUE, out |-> stdout, id |-> jobid]
                ELSE first
    /\ subpc' = "call"
    /\ retries' = Retries
    /\ last' = "none"
    /\ stdout' = <<>>
    /\ jobid' = NoResult
    /\ invocations' = 0
    /\ slept' = 0
    /\ allNonZero' = TRUE
    /\ UNCHANGED sleep_int
    /\ UNCHANGED notSubmit

SubmitNext ==
    \/ OutputSpawnError
    \/ OutputNonZero
    \/ Sleep
    \/ OutputSuccess
    \/ SubmitAgain

----------------------------------------------------------------------------
\* Pbs::status

\* assert!(fields.len() == 11)
ExpectedFields == 11

\* n dashes
Dashes(n) == [i \in 1..n |-> "-"]

\* the fields, separated by single blanks
RECURSIVE JoinFields(_)
JoinFields(fs_) ==
    IF fs_ = <<>> THEN <<>>
    ELSE IF Len(fs_) = 1 THEN Head(fs_)
    ELSE Head(fs_) \o <<" ">> \o JoinFields(Tail(fs_))

\* lines of the qstat table shown above stat_cmd
HeaderLine == <<"J","o","b"," ","I","D"," ","U","s","e","r">>
DividerLine ==
    JoinFields(<<Dashes(15), Dashes(8), Dashes(8), Dashes(10), Dashes(6),
                 Dashes(3), Dashes(3), Dashes(6), Dashes(5), Dashes(1),
                 Dashes(5)>>)
\* a data row of n fields whose first field is id
DataRow(id, n) == JoinFields(<<id>> \o [i \in 1..(n - 1) |-> <<"x">>])
Id7 == <<"8","1","7">>
Id8 == <<"8","1","8">>
RowLines ==
    {DataRow(Id7, ExpectedFields), DataRow(Id8, ExpectedFields),
     DataRow(Id7, ExpectedFields - 1), DataRow(Id8, ExpectedFields + 1), <<>>}
TableLines == {HeaderLine, DividerLine} \cup RowLines

\* sequences over S of length at most n
RECURSIVE SeqsUpTo(_, _)
SeqsUpTo(S, n) ==
    IF n = 0 THEN {<<>>}
    ELSE LET shorter == SeqsUpTo(S, n - 1) IN
         shorter \cup {Append(t, l) : t \in {u \in shorter : Len(u) = n - 1}, l \in S}

\* the text qstat prints: every line ended by "\n", the last one optionally
RECURSIVE Unlines(_, _)
Unlines(ls, finalNewline) ==
    IF ls = <<>> THEN <<>>
    ELSE IF Len(ls) = 1 /\ ~finalNewline THEN Head(ls)
    ELSE Head(ls) \o <<"\n">> \o Unlines(Tail(ls), finalNewline)

\* str::lines: the text up to each "\n" (without a "\r" in front of it) is a
\* line; what follows the last "\n" is a line too unless it is empty
StripCr(l) ==
    IF l # <<>> /\ l[Len(l)] = "\r" THEN SubSeq(l, 1, Len(l) - 1) ELSE l
RECURSIVE Lines(_)
Lines(s) ==
    IF s = <<>> THEN <<>>
    ELSE LET ends == {i \in 1..Len(s) : s[i] = "\n"} IN
         IF ends = {} THEN <<s>>
         ELSE LET e == CHOOSE i \in ends : \A j \in ends : i <= j IN
              <<StripCr(SubSeq(s, 1, e - 1))>> \o Lines(SubSeq(s, e + 1, Len(s)))

\* l.contains("-----------")
ContainsDashes(l) ==
    \E i \in 1..(Len(l) - 10) : SubSeq(l, i, i + 10) = Dashes(11)

\* lines.skip_while(|l| !l.contains("-----------")): drops the lines before
\* the first one that contains the dashes, and yields that one and the rest
RECURSIVE SkipWhile(_)
SkipWhile(ls) ==
    IF ls = <<>> THEN <<>>
    ELSE IF ~ContainsDashes(Head(ls)) THEN SkipWhile(Tail(ls))
    ELSE ls

\* (variant: no line is dropped)
SkipNothing(ls) == ls

\* lines.skip_while(..) of status, as the scheduler's poll runs it
SkipHeader(ls) == SkipWhile(ls)

\* (variant: rows with extra fields are let through)
FieldsOkAtLeast(fields) == Len(fields) >= ExpectedFields

\* fields.len() == 11
FieldsOk(fields) == Len(fields) = ExpectedFields

\* before the first call of status
StatusInit ==
    /\ statpc = "idle"
    /\ output = <<>>
    /\ rest = <<>>
    /\ ret = {}

\* status: ret = HashSet::new(); lines = stat_cmd(); the skip_while
StatusCall ==
    /\ statpc = "idle"
    /\ \E ls \in SeqsUpTo(TableLines, MaxLines), nl \in BOOLEAN :
         /\ output' = Unlines(ls, nl)
         /\ rest' = SkipWhile(Lines(output'))
    /\ ret' = {}
    /\ statpc' = "loop"
    /\ UNCHANGED notStatus

\* stat_cmd panics: no $USER, qstat cannot be run, or its output is not UTF-8
StatCmdPanics ==
    /\ statpc = "idle"
    /\ statpc' = "panicked"
    /\ UNCHANGED <<output, rest, ret>>
    /\ UNCHANGED notStatus

\* status: one iteration of `for line in lines`
StatusLine ==
    /\ statpc = "loop"
    /\ rest # <<>>
    /\ LET fields == SplitWhitespace(Head(rest)) IN
         IF FieldsOk(fields)
         THEN /\ ret' = ret \cup {fields[1]}
              /\ rest' = Tail(rest)
              /\ UNCHANGED statpc
         ELSE \* the assert! fails
              /\ statpc' = "panicked"
              /\ UNCHANGED <<ret, rest>>
    /\ UNCHANGED output
    /\ UNCHANGED notStatus

\* status: the loop is over, ret is returned
StatusReturn ==
    /\ statpc = "loop"
    /\ rest = <<>>
    /\ statpc' = "returned"
    /\ UNCHANGED <<output, rest, ret>>
    /\ UNCHANGED notStatus

StatusNext ==
    \/ StatusCall
    \/ StatCmdPanics
    \/ StatusLine
    \/ StatusReturn

----------------------------------------------------------------------------
\* write_submit_script

\* the placeholder tokens
BasenameTok ==
    <<"{","{",".","b","a","s","e","n","a","m","e","}","}">>
FilenameTok ==
    <<"{","{",".","f","i","l","e","n","a","m","e","}","}">>

\* <Pbs as Queue<Molpro>>::default_submit_script
MolproDefaultScript ==
    <<"#","!","/","b","i","n","/","s","h","\n","#","P","B","S"," ","-","N",
      " ","{","{",".","b","a","s","e","n","a","m","e","}","}","\n","#","P",
      "B","S"," ","-","S"," ","/","b","i","n","/","b","a","s","h","\n","#",
      "P","B","S"," ","-","j"," ","o","e","\n","#","P","B","S"," ","-","o",
      " ","{","{",".","b","a","s","e","n","a","m","e","}","}",".","o","u","t",
      "\n","#","P","B","S"," ","-","W"," ","u","m","a","s","k","=","0","2",
      "2","\n","#","P","B","S"," ","-","l"," ","w","a","l","l","t","i","m",
      "e","=","1","0","0","0",":","0","0",":","0","0","\n","#","P","B","S",
      " ","-","l"," ","n","c","p","u","s","=","1","\n","#","P","B","S"," ",
      "-","l"," ","m","e","m","=","8","g","b","\n","#","P","B","S"," ","-",
      "q"," ","w","o","r","k","q","\n","\n","m","o","d","u","l","e"," ","l",
      "o","a","d"," ","o","p","e","n","p","b","s"," ","m","o","l","p","r","o",
      "\n","\n","e","x","p","o","r","t"," ","W","O","R","K","D","I","R","=",
      "$","P","B","S","_","O","_","W","O","R","K","D","I","R","\n","e","x",
      "p","o","r","t"," ","T","M","P","D","I","R","=","/","t","m","p","/","$",
      "U","S","E","R","/","$","P","B","S","_","J","O","B","I","D","\n","c",
      "d"," ","$","W","O","R","K","D","I","R","\n","m","k","d","i","r"," ",
      "-","p"," ","$","T","M","P","D","I","R","\n">>

\* <Pbs as Queue<Mopac>>::default_submit_script
MopacDefaultScript ==
    <<"#","!","/","b","i","n","/","s","h","\n","#","P","B","S"," ","-","N",
      " ","{","{",".","b","a","s","e","n","a","m","e","}","}","\n","#","P",
      "B","S"," ","-","S"," ","/","b","i","n","/","b","a","s","h","\n","#",
      "P","B","S"," ","-","j"," ","o","e","\n","#","P","B","S"," ","-","o",
      " ","{","{",".","f","i","l","e","n","a","m","e","}","}",".","o","u","t",
      "\n","#","P","B","S"," ","-","W"," ","u","m","a","s","k","=","0","2",
      "2","\n","#","P","B","S"," ","-","l"," ","w","a","l","l","t","i","m",
      "e","=","1","0","0","0",":","0","0",":","0","0","\n","#","P","B","S",
      " ","-","l"," ","n","c","p","u","s","=","1","\n","#","P","B","S"," ",
      "-","l"," ","m","e","m","=","1","g","b","\n","#","P","B","S"," ","-",
      "q"," ","w","o","r","k","q","\n","\n","m","o","d","u","l","e"," ","l",
      "o","a","d"," ","o","p","e","n","p","b","s","\n","\n","e","x","p","o",
      "r","t"," ","W","O","R","K","D","I","R","=","$","P","B","S","_","O","_",
      "W","O","R","K","D","I","R","\n","c","d"," ","$","W","O","R","K","D",
      "I","R","\n","\n">>

\* literal text of the lines appended per input file
MolproCmd ==
    <<"m","o","l","p","r","o"," ","-","t"," ","$","N","C","P","U","S"," ","-",
      "-","n","o","-","x","m","l","-","o","u","t","p","u","t"," ">>
MolproInp ==
    <<".","i","n","p","\n">>
MolproRm ==
    <<"r","m"," ","-","r","f"," ","$","T","M","P","D","I","R","\n">>
MopacCmd ==
    <<"/","d","d","n","/","h","o","m","e","1","/","r","2","5","1","8","/","P",
      "a","c","k","a","g","e","s","/","m","o","p","a","c","/","b","u","i","l",
      "d","/","m","o","p","a","c"," ">>
MopacMop ==
    <<".","m","o","p","\n">>
LocalExport ==
    <<"e","x","p","o","r","t"," ","L","D","_","L","I","B","R","A","R","Y","_",
      "P","A","T","H","=","/","o","p","t","/","m","o","p","a","c","/","\n">>
LocalMopac ==
    <<"/","o","p","t","/","m","o","p","a","c","/","m","o","p","a","c">>
LocalMopOut ==
    <<".","m","o","p"," ","&",">"," ">>
LocalOutNl ==
    <<".","o","u","t","\n">>
LocalCat ==
    <<"c","a","t"," ">>
LocalMop ==
    <<".","m","o","p"," ">>
LocalOutTo ==
    <<".","o","u","t"," ",">",">"," ">>
LocalEcho ==
    <<"e","c","h","o"," ","\"","=","=","=","=","=","=","=","=","=","=","=",
      "=","=","=","=","=","\""," ",">",">"," ">>
LocalDate ==
    <<"d","a","t","e"," ","+","%","s"," ",">",">"," ">>

\* pieces a caller-supplied template is made of
TemplatePieces == {<<"#">>, BasenameTok, FilenameTok}
RECURSIVE Concat(_)
Concat(ps) == IF ps = <<>> THEN <<>> ELSE Head(ps) \o Concat(Tail(ps))
Templates ==
    {[some |-> FALSE, text |-> <<>>]}
      \cup {[some |-> TRUE, text |-> Concat(ps)] : ps \in SeqsUpTo(TemplatePieces, MaxPieces)}
\* script paths and input file names
ScriptNames == {<<"d", "/", "s">>, <<"s">>}
InfileLists == {<<>>, <<<<"p", "/", "a">>>>, <<<<"p", "/", "a">>, <<"b">>>>}
Variants == {"pbs_molpro", "pbs_mopac", "local"}

\* Path::file_name, of a path that does not end in a separator: what
\* follows the last "/"
FileName(path) ==
    LET seps == {i \in 1..Len(path) : path[i] = "/"} IN
    IF seps = {} THEN path
    ELSE SubSeq(path, (CHOOSE i \in seps : \A j \in seps : j <= i) + 1, Len(path))

\* str::replace: every non-overlapping match of pat, left to right
RECURSIVE Replace(_, _, _)
Replace(s, pat, rep) ==
    LET ms == {i \in 1..(Len(s) - Len(pat) + 1) : SubSeq(s, i, i + Len(pat) - 1) = pat} IN
    IF ms = {} THEN s
    ELSE LET i == CHOOSE k \in ms : \A j \in ms : k <= j IN
         SubSeq(s, 1, i - 1) \o rep \o Replace(SubSeq(s, i + Len(pat), Len(s)), pat, rep)

\* <Pbs as Queue<Molpro>>::write_submit_script, the header:
\* template or default script, .replace("{{.basename}}", basename)
MolproHeader(tpl, name) ==
    Replace(IF tpl.some THEN tpl.text ELSE MolproDefaultScript,
            BasenameTok, FileName(name))

\* <Pbs as Queue<Mopac>>::write_submit_script, the header: template or
\* default script, .replace("{{.basename}}", ..).replace("{{.filename}}", ..)
MopacHeader(tpl, name) ==
    Replace(Replace(IF tpl.some THEN tpl.text ELSE MopacDefaultScript,
                    BasenameTok, FileName(name)),
            FilenameTok, name)

\* the lines appended for the input files
RECURSIVE MolproLines(_)
MolproLines(fls) ==
    IF fls = <<>> THEN MolproRm
    ELSE MolproCmd \o <<"\"">> \o FileName(Head(fls)) \o <<"\"">> \o MolproInp
           \o MolproLines(Tail(fls))
RECURSIVE MopacLines(_)
MopacLines(fls) ==
    IF fls = <<>> THEN <<>>
    ELSE MopacCmd \o Head(fls) \o MopacMop \o MopacLines(Tail(fls))
RECURSIVE LocalLines(_, _)
LocalLines(fls, name) ==
    IF fls = <<>> THEN LocalDate \o name \o LocalOutNl
    ELSE LET f == Head(fls) IN
         LocalMopac \o <<" ">> \o f \o LocalMopOut \o name \o LocalOutNl
           \o LocalCat \o f \o LocalMop \o f \o LocalOutTo \o name \o LocalOutNl
           \o LocalEcho \o name \o LocalOutNl
           \o LocalLines(Tail(fls), name)

\* the body each impl writes to the file
ScriptBody(v, tpl, fls, name) ==
    IF v = "pbs_molpro" THEN MolproHeader(tpl, name) \o MolproLines(fls)
    ELSE IF v = "pbs_mopac" THEN MopacHeader(tpl, name) \o MopacLines(fls)
    ELSE LocalExport \o LocalLines(fls, name)

\* before a call of write_submit_script
WriterInit ==
    /\ swpc = "idle"
    /\ variant = "local"
    /\ template = [some |-> FALSE, text |-> <<>>]
    /\ scriptName = <<>>
    /\ infiles = <<>>
    /\ script = <<>>

\* write_submit_script, File::create and write! succeed
WriteSubmitScript ==
    /\ swpc = "idle"
    /\ \E v \in Variants, tpl \in Templates, fls \in InfileLists, name \in ScriptNames :
         /\ variant' = v
         /\ template' = tpl
         /\ infiles' = fls
         /\ scriptName' = name
         /\ script' = ScriptBody(v, tpl, fls, name)
    /\ swpc' = "written"
    /\ UNCHANGED notWriter

\* write_submit_script, File::create or write! fails: panic or exit(1)
WriteSubmitScriptFails ==
    /\ swpc = "idle"
    /\ \E v \in Variants, tpl \in Templates, fls \in InfileLists, name \in ScriptNames :
         /\ variant' = v
         /\ template' = tpl
         /\ infiles' = fls
         /\ scriptName' = name
    /\ swpc' = "failed"
    /\ UNCHANGED script
    /\ UNCHANGED notWriter

\* the next chunk's script is written
WriteAgain ==
    /\ swpc = "written"
    /\ swpc' = "idle"
    /\ UNCHANGED <<variant, template, scriptName, infiles, script>>
    /\ UNCHANGED notWriter

WriterNext ==
    \/ WriteSubmitScript
    \/ WriteSubmitScriptFails
    \/ WriteAgain

----------------------------------------------------------------------------
\* ChunkScheduler (section 4.4 of the specification), over the queue accessors

\* fn job_limit(&self) of Local
LocalJobLimit == 1600

\* (variant: chunks one job larger than configured)
ChunkSizePlusOne(c) == c.chunk_size + 1

\* fn chunk_size(&self): self.chunk_size, for Pbs and for Local
ChunkSize(c) == c.chunk_size

\* fn job_limit(&self): self.job_limit for Pbs, the constant for Local
JobLimit(c) ==
    IF c.backend = "local" THEN LocalJobLimit ELSE c.job_limit

\* fn no_del(&self): self.no_del for Pbs, false for Local
NoDel(c) ==
    IF c.backend = "local" THEN FALSE ELSE c.no_del

\* <Molpro as Program>::associated_files
MolproFiles(j) == {<<j, "inp">>, <<j, "out">>}
\* associated_files of the Mopac adapter
MopacFiles(j) == {<<j, "mop">>, <<j, "out">>}
AssociatedFiles(c, j) ==
    IF c.program = "molpro" THEN MolproFiles(j) ELSE MopacFiles(j)

\* <Molpro as Program>::read_output: todo!()
MolproReadOutput(j) == "panic"
\* read_output of the Mopac adapter: Ok(JobResult) or Err(JobError)
MopacReadOutput(c, j) == IF j \in c.bad THEN "error" ELSE "result"
ReadOutput(c, j) ==
    IF c.program = "molpro" THEN MolproReadOutput(j) ELSE MopacReadOutput(c, j)

\* the batches and queue configurations
Configs(maxN, maxC, maxL) ==
    UNION {[backend : {"pbs", "local"}, program : {"mopac", "molpro"},
            n : {n}, chunk_size : 1..maxC, job_limit : 1..maxL,
            no_del : BOOLEAN, bad : {{}} \cup {{j} : j \in 1..n}] : n \in 0..maxN}
SmallConfigs ==
    {c \in Configs(MaxJobs, MaxChunk, MaxLimit) : c.job_limit >= c.chunk_size}
\* 300 jobs, chunk_size = 100, job_limit = 200
ScenarioConfigs ==
    [backend : {"pbs"}, program : {"mopac", "molpro"}, n : {300},
     chunk_size : {100}, job_limit : {200}, no_del : {FALSE}, bad : {{}, {150}}]

Min2(a, b) == IF a <= b THEN a ELSE b
\* chunks with an outstanding id, jobs in them
Outstanding == {k \in 1..Len(chunks) : chunks[k].out}
RECURSIVE SumSizes(_)
SumSizes(ks) ==
    IF ks = {} THEN 0
    ELSE LET k == CHOOSE x \in ks : TRUE IN
         (chunks[k].hi - chunks[k].lo + 1) + SumSizes(ks \ {k})
ActiveJobs == SumSizes(Outstanding)
JobsOf(ks) == UNION {chunks[k].lo .. chunks[k].hi : k \in ks}

\* the job id recorded for the k-th script submitted
Digits == <<"1", "2", "3", "4", "5", "6", "7", "8", "9">>
ChunkId(k) == <<"8", "1", Digits[k]>>

\* what qstat prints when the chunks in ks are still listed
QstatRows(ks) ==
    LET RECURSIVE rows(_)
        rows(r) == IF r = {} THEN <<>>
                   ELSE LET k == CHOOSE x \in r : \A y \in r : x <= y IN
                        <<DataRow(chunks[k].id, ExpectedFields)>> \o rows(r \ {k})
    IN rows(ks)
QstatText(ks, form) ==
    IF form = "empty" THEN <<>>
    ELSE IF form = "header" THEN Unlines(<<HeaderLine>>, TRUE)
    ELSE IF form = "garbled"
         THEN Unlines(<<HeaderLine, DividerLine>> \o QstatRows(ks)
                        \o <<DataRow(Id7, ExpectedFields - 1)>>, TRUE)
    ELSE Unlines(<<HeaderLine, DividerLine>> \o QstatRows(ks), TRUE)
PollForms(ks) ==
    IF ks = {} THEN {"table", "garbled", "empty", "header"} ELSE {"table", "garbled"}

\* <Pbs as SubQueue<P>>::status run to its end on the text out
StatusRun(out) ==
    LET ls == SkipHeader(Lines(out))
        flds == [i \in 1..Len(ls) |-> SplitWhitespace(ls[i])]
    IN  IF \A i \in 1..Len(ls) : FieldsOk(flds[i])
        THEN [ok |-> TRUE, set |-> {flds[i][1] : i \in 1..Len(ls)}]
        ELSE [ok |-> FALSE, set |-> {}]

\* before the loop: every job pending, no chunk
SchedInit ==
    /\ cfg \in SmallConfigs \cup ScenarioConfigs
    /\ schedpc = "head"
    /\ abortCause = "none"
    /\ pending = cfg.n
    /\ chunks = <<>>
    /\ outcomes = [j \in 1..cfg.n |-> "none"]
    /\ nrecorded = [j \in 1..cfg.n |-> 0]
    /\ dumped = {}
    /\ polled = FALSE
    /\ queued = {}
    /\ pollForm = "none"
    /\ treated = {}

\* loop condition: while pending jobs remain or active chunks remain
LoopHead ==
    /\ schedpc = "head"
    /\ schedpc' = IF pending = 0 /\ Outstanding = {} THEN "terminated" ELSE "submit"
    /\ UNCHANGED <<cfg, abortCause, pending, chunks, outcomes, nrecorded, dumped,
                   polled, queued, pollForm, treated>>
    /\ UNCHANGED notSched

\* step 1, one round: take up to chunk_size pending jobs, write the inputs
\* and the script, submit, record the id
SubmitChunk ==
    /\ schedpc = "submit"
    /\ pending > 0
    /\ ActiveJobs < JobLimit(cfg)
    /\ LET take == Min2(ChunkSize(cfg), pending)
           lo == cfg.n - pending + 1
           k == Len(chunks) + 1
       IN  /\ chunks' = Append(chunks, [lo |-> lo, hi |-> lo + take - 1,
                                           id |-> ChunkId(k), out |-> TRUE])
           /\ pending' = pending - take
    /\ UNCHANGED <<cfg, schedpc, abortCause, outcomes, nrecorded, dumped, polled,
                   queued, pollForm, treated>>
    /\ UNCHANGED notSched

\* step 1, the script cannot be written or the submit fails for good
SubmitFatal ==
    /\ schedpc = "submit"
    /\ pending > 0
    /\ ActiveJobs < JobLimit(cfg)
    /\ schedpc' = "panicked"
    /\ abortCause' = "submit"
    /\ UNCHANGED <<cfg, pending, chunks, outcomes, nrecorded, dumped, polled,
                   queued, pollForm, treated>>
    /\ UNCHANGED notSched

\* step 1 is over: the limit is reached or nothing is pending
SubmitDone ==
    /\ schedpc = "submit"
    /\ ~(pending > 0 /\ ActiveJobs < JobLimit(cfg))
    /\ schedpc' = "poll"
    /\ UNCHANGED <<cfg, abortCause, pending, chunks, outcomes, nrecorded, dumped,
                   polled, queued, pollForm, treated>>
    /\ UNCHANGED notSched

\* step 2 for the chunks in fin: read_output of every job, record the
\* outcome, send the job's files to the Dump unless no_del
Collect(fin) ==
    LET jobs == JobsOf(fin) IN
    /\ treated' = fin
    /\ IF \E j \in jobs : ReadOutput(cfg, j) = "panic"
       THEN /\ schedpc' = "panicked"
            /\ abortCause' = "read_output"
            /\ UNCHANGED <<chunks, outcomes, nrecorded, dumped>>
       ELSE /\ outcomes' = [j \in 1..cfg.n |->
                              IF j \in jobs THEN ReadOutput(cfg, j) ELSE outcomes[j]]
            /\ nrecorded' = [j \in 1..cfg.n |->
                               IF j \in jobs THEN nrecorded[j] + 1 ELSE nrecorded[j]]
            /\ dumped' = IF NoDel(cfg) THEN dumped
                         ELSE dumped \cup UNION {AssociatedFiles(cfg, j) : j \in jobs}
            /\ chunks' = [k \in 1..Len(chunks) |->
                            IF k \in fin THEN [chunks[k] EXCEPT !.out = FALSE]
                            ELSE chunks[k]]
            /\ schedpc' = "head"
            /\ UNCHANGED abortCause

\* step 2 with Pbs: sleep, status(), then collect the chunks whose id is
\* not in the set
PollPbs ==
    /\ schedpc = "poll"
    /\ cfg.backend = "pbs"
    /\ \E ks \in SUBSET Outstanding :
       \E form \in PollForms(ks) :
         LET res == StatusRun(QstatText(ks, form)) IN
         /\ queued' = ks
         /\ pollForm' = form
         /\ polled' = TRUE
         /\ IF res.ok
            THEN Collect({k \in Outstanding : chunks[k].id \notin res.set})
            ELSE /\ schedpc' = "panicked"
                 /\ abortCause' = "status"
                 /\ UNCHANGED <<chunks, outcomes, nrecorded, dumped, treated>>
    /\ UNCHANGED <<cfg, pending>>
    /\ UNCHANGED notSched

\* step 2 with Local: the jobs ran inside submit, status is not called and
\* every submitted chunk is collected
CollectLocal ==
    /\ schedpc = "poll"
    /\ cfg.backend = "local"
    /\ Collect(Outstanding)
    /\ UNCHANGED <<cfg, pending, polled, queued, pollForm>>
    /\ UNCHANGED notSched

SchedNext ==
    \/ LoopHead
    \/ SubmitChunk
    \/ SubmitFatal
    \/ SubmitDone
    \/ PollPbs
    \/ CollectLocal

----------------------------------------------------------------------------
\* Specifications

\* a scheduler that is not used: one empty batch
SchedIdle ==
    /\ SchedInit
    /\ cfg = [backend |-> "pbs", program |-> "mopac", n |-> 0, chunk_size |-> 1,
              job_limit |-> 1, no_del |-> FALSE, bad |-> {}]

\* the Dump alone, from Dump::new
InitDump ==
    DumpInit /\ SubmitInit /\ sleep_int = 1 /\ StatusInit /\ WriterInit
      /\ SchedIdle
SpecDump == InitDump /\ [][DumpNext]_vars

\* submit alone, from the first call
InitSubmit ==
    SubmitInit /\ DumpInit /\ fs = Files /\ StatusInit /\ WriterInit
      /\ SchedIdle
SpecSubmit == InitSubmit /\ [][SubmitNext]_vars

\* status alone, from before the first poll
InitStatus ==
    StatusInit /\ DumpInit /\ fs = Files /\ SubmitInit /\ sleep_int = 1 /\ WriterInit
      /\ SchedIdle
SpecStatus == InitStatus /\ [][StatusNext]_vars

\* write_submit_script alone
InitWriter ==
    WriterInit /\ DumpInit /\ fs = Files /\ SubmitInit /\ sleep_int = 1 /\ StatusInit
      /\ SchedIdle
SpecWriter == InitWriter /\ [][WriterNext]_vars

\* the scheduler loop alone, for every batch and configuration
InitSched ==
    SchedInit /\ DumpInit /\ fs = Files /\ SubmitInit /\ sleep_int = 1 /\ StatusInit
      /\ WriterInit
SpecSched == InitSched /\ [][SchedNext]_vars

----------------------------------------------------------------------------
\* Dump properties

IsPrefix(s, t) == Len(s) <= Len(t) /\ \A i \in 1..Len(s) : s[i] = t[i]

\* C1 (as stated): once the worker thread has exited, a deletion has been
\* attempted for every filename that was sent before shutdown.
C1_AllSentAttempted ==
    workerpc = "exited" => attempted = sent

\* C1 (amended): when the worker exits because the channel was closed and
\* drained, every sent filename has been attempted; when it exits because it
\* received the stop signal, the attempts are a strict prefix of the sent
\* filenames (the dequeued file and the backlog are dropped).
C1_AttemptedUnlessStopped ==
    workerpc = "exited" =>
        IF stopReceived
        THEN IsPrefix(attempted, sent) /\ Len(attempted) < Len(sent)
        ELSE attempted = sent

C1_Witness ==
    /\ workerpc = "exited"
    /\ ~stopReceived
    /\ Len(sent) >= 2
    /\ attempted = sent

\* C2: shutdown returns normally (it never panics), and when it has returned
\* the worker thread has exited.
C2_ShutdownClean ==
    /\ mainpc # "panicked"
    /\ mainpc = "done" => workerpc = "exited"

\* C3: the deletion attempts are made in the order the filenames were sent,
\* each sent filename at most once, and nothing is attempted that was not
\* sent: the attempts are always a prefix of the sent sequence.
C3_FifoAttempts ==
    /\ IsPrefix(attempted, sent)
    /\ Len(attempted) + Len(queue) + (IF workerpc \in {"check", "remove"} THEN 1 ELSE 0)
         <= Len(sent)

C3_Witness ==
    /\ Len(attempted) >= 2
    /\ attempted[1] # attempted[2]
    /\ attempted = SubSeq(sent, 1, 2)

\* C4: a failed deletion leaves the worker in its loop, ready for the next
\* filename; it changes neither the owner thread's position nor the channel
\* nor the backlog, and the worker never panics.
DeletionFailed ==
    /\ workerpc = "remove"
    /\ Len(outcome') = Len(outcome) + 1
    /\ outcome'[Len(outcome')] = "err"

C4_FailureSwallowed ==
    /\ [](workerpc # "panicked")
    /\ [][DeletionFailed =>
            /\ workerpc' = "recv"
            /\ mainpc' = mainpc
            /\ queue' = queue
            /\ sent' = sent
            /\ senderOpen' = senderOpen
            /\ exitOpen' = exitOpen]_vars

C4_Witness ==
    /\ Len(outcome) >= 2
    /\ outcome[1] = "err"
    /\ outcome[2] = "ok"
    /\ attempted = SubSeq(sent, 1, 2)
    /\ mainpc = "done"


\* C17: while the sink is running a send can always be made, however many
\* names are queued and wherever the worker is, and it is over in that one
\* step: the name is queued behind the others and nothing of the worker has
\* changed.
C17_SendNeverBlocks ==
    /\ []((mainpc = "running" /\ Len(sent) < MaxSends) => ENABLED Send)
    /\ [][sent' # sent =>
            /\ mainpc = "running" /\ mainpc' = "running"
            /\ queue' = Append(queue, sent'[Len(sent')])
            /\ workerpc' = workerpc /\ file' = file /\ attempted' = attempted]_vars

C17_Witness ==
    /\ mainpc = "running"
    /\ Len(sent) = 3
    /\ Len(queue) = 2
    /\ workerpc = "remove"

\* C19: once the worker has received the stop signal it has exited and makes
\* no further deletion attempt, whatever is left in the channel; the signal is
\* received only while shutdown is parked in signal.send, and while the sink
\* is running every sent filename is attempted, in the worker's hand, or
\* still queued.
C19_ImmediateStop ==
    /\ [](stopReceived => workerpc = "exited")
    /\ [][stopReceived => attempted' = attempted]_vars
    /\ [][(~stopReceived /\ stopReceived') =>
            (mainpc = "blocked" /\ workerpc = "check" /\ attempted' = attempted)]_vars
    /\ [](mainpc = "running" =>
            Len(sent) = Len(attempted) + Len(queue)
                          + (IF workerpc \in {"check", "remove"} THEN 1 ELSE 0))

C19_Witness ==
    /\ stopReceived
    /\ workerpc = "exited"
    /\ Len(attempted) = 1
    /\ Len(queue) = 1
    /\ Len(sent) = 3

----------------------------------------------------------------------------
\* submit properties

\* C5 (as stated): when every invocation exits non-zero, submit fails after
\* exactly 5 invocations and never makes a sixth.
C5_FiveInvocations ==
    /\ (subpc = "failed" /\ allNonZero) => invocations = 5
    /\ allNonZero => invocations <= 5

\* C5 (amended): when every invocation exits non-zero, submit fails after
\* exactly 6 invocations (the first attempt and 5 retries) with one sleep of
\* sleep_int seconds between consecutive invocations (5 sleeps); it never
\* makes a seventh invocation, and none after it has failed.
C5_SixInvocations ==
    /\ []((subpc = "failed" /\ allNonZero) =>
             (invocations = 6 /\ slept = 5 * sleep_int))
    /\ [](invocations <= 6)
    /\ [](subpc = "call" => slept = invocations * sleep_int)
    /\ [][subpc = "failed" => invocations' = invocations]_vars

C5_Witness ==
    /\ subpc = "failed"
    /\ allNonZero
    /\ invocations = 6
    /\ slept = 5 * sleep_int

\* C6 (as stated): whenever submit has failed, whatever the kind of the
\* failed attempt, the retry budget had been used up.
C6_FailsOnlyAfterRetries ==
    subpc = "failed" => retries = 0

\* C6 (amended): submit fails on a non-zero exit only when the retry budget
\* is used up (5 retries, 6 invocations); a subprocess that cannot be
\* launched fails submit at once, on whichever attempt it happens, and so
\* does a zero-exit attempt whose stdout is not UTF-8.
C6_FailureKinds ==
    /\ subpc = "failed" =>
          \/ last = "nonzero" /\ retries = 0 /\ invocations = 6
          \/ last = "spawn"
          \/ last = "ok" /\ ~Utf8Valid(stdout)
    /\ last = "spawn" => subpc = "failed"
    /\ (last = "nonzero" /\ invocations < 6) => subpc \in {"sleep", "call"}

C6_Witness ==
    /\ subpc = "failed"
    /\ last = "spawn"
    /\ invocations = 3
    /\ retries = 3

\* the last maximal run of non-whitespace characters of s, described by
\* positions: it ends at the last non-whitespace character and starts after
\* the last whitespace character before that one
Max(S) == CHOOSE x \in S : \A y \in S : y <= x
LastToken(s) ==
    LET black == {i \in 1..Len(s) : ~IsWhitespace(s[i])} IN
    IF black = {} THEN NoJobid
    ELSE LET j == Max(black)
             white == {i \in 1..j : IsWhitespace(s[i])}
             i == IF white = {} THEN 0 ELSE Max(white)
         IN  SubSeq(s, i + 1, j)

\* C7 (as stated): a zero-exit submit returns the last whitespace-delimited
\* token of stdout, which for "your job 12345 submitted" is "12345", and
\* "no jobid" when stdout holds no token.
C7_LastTokenIs12345 ==
    subpc = "done" =>
        /\ jobid = LastToken(stdout)
        /\ stdout = YourJob => jobid = Id12345

\* C7 (amended): a zero-exit submit with UTF-8 stdout does not fail and
\* returns the last whitespace-delimited token of stdout, which for
\* "your job 12345 submitted" is "submitted" and for "your job 12345\n" is
\* "12345"; it returns "no jobid" when stdout holds no token.
C7_LastTokenReturned ==
    /\ (last = "ok" /\ Utf8Valid(stdout)) =>
          (subpc = "done" /\ jobid = LastToken(stdout))
    /\ subpc = "done" =>
          /\ stdout = YourJob => jobid = Submitted
          /\ stdout = YourJobIs => jobid = Id12345
          /\ (\A i \in 1..Len(stdout) : IsWhitespace(stdout[i])) => jobid = NoJobid

C7_Witness ==
    /\ subpc = "done"
    /\ stdout = YourJob
    /\ jobid = Submitted

\* C8: a submit that succeeds on attempt k, for any k up to 6, returns the
\* id that a submit succeeding on its first attempt returned for the same
\* stdout.
C8_RetryTransparent ==
    (subpc = "done" /\ first.set /\ first.out = stdout) => jobid = first.id

C8_Witness ==
    /\ subpc = "done"
    /\ invocations = 6
    /\ first.set
    /\ first.out = stdout
    /\ jobid = first.id
    /\ jobid = <<"2">>
    /\ stdout = <<"1", " ", "2">>

----------------------------------------------------------------------------
\* status properties

\* the positions where a whitespace-delimited field of l starts
FieldStarts(l) ==
    {i \in 1..Len(l) : ~IsWhitespace(l[i]) /\ (i = 1 \/ IsWhitespace(l[i - 1]))}
NumFields(l) == Cardinality(FieldStarts(l))
\* field 0 of a line that has a field
FirstField(l) ==
    LET a == CHOOSE i \in FieldStarts(l) : \A j \in FieldStarts(l) : i <= j
        b == CHOOSE j \in a..Len(l) :
                 /\ j = Len(l) \/ IsWhitespace(l[j + 1])
                 /\ \A k \in a..j : ~IsWhitespace(l[k])
    IN  SubSeq(l, a, b)

\* index of the divider row (the first line with the dashes), 0 if none
DividerIndex(ls) ==
    LET ds == {i \in 1..Len(ls) : ContainsDashes(ls[i])} IN
    IF ds = {} THEN 0 ELSE CHOOSE i \in ds : \A j \in ds : i <= j
\* the lines after the divider row
AfterDivider(ls) == SubSeq(ls, DividerIndex(ls) + 1, Len(ls))

\* C9: for a table with a divider row, the set status returns is the set of
\* first fields of the lines after the divider row, and holds nothing from
\* the header or the divider.
C9_HeaderSkipped ==
    LET ls == Lines(output) IN
    (statpc = "returned" /\ DividerIndex(ls) > 0) =>
        ret = {FirstField(AfterDivider(ls)[i]) : i \in 1..Len(AfterDivider(ls))}

\* C10: status returns a set only if every line after the divider row has
\* exactly 11 fields; a line with another field count makes the loop fail
\* right there, and a failed status stays failed (no set is returned).
C10_StrictParsing ==
    /\ [](LET ls == Lines(output) IN
          (statpc = "returned" /\ DividerIndex(ls) > 0) =>
              \A i \in 1..Len(AfterDivider(ls)) : NumFields(AfterDivider(ls)[i]) = 11)
    /\ [][(statpc = "loop" /\ rest # <<>> /\ NumFields(Head(rest)) # 11)
            => (statpc' = "panicked" /\ ret' = ret)]_vars
    /\ [][statpc = "panicked" => statpc' = "panicked"]_vars

C10_Witness ==
    /\ statpc = "panicked"
    /\ Lines(output) = <<HeaderLine, DividerLine, DataRow(Id8, 11), DataRow(Id7, 10)>>
    /\ rest = <<DataRow(Id7, 10)>>
    /\ Id8 \in ret

----------------------------------------------------------------------------
\* write_submit_script properties

Contains(s, pat) ==
    \E i \in 1..(Len(s) - Len(pat) + 1) : SubSeq(s, i, i + Len(pat) - 1) = pat

\* C18: whatever the impl and whether the built-in or a supplied template is
\* used, the script written holds neither {{.basename}} nor {{.filename}}.
C18_NoPlaceholderLeft ==
    swpc = "written" =>
        (~Contains(script, BasenameTok) /\ ~Contains(script, FilenameTok))

----------------------------------------------------------------------------
\* ChunkScheduler properties

Scenario == cfg.n = 300 /\ cfg.chunk_size = 100 /\ cfg.job_limit = 200
\* chunks whose jobs were collected
Done == {k \in 1..Len(chunks) : ~chunks[k].out}
ChunksOf(j) == {k \in 1..Len(chunks) : chunks[k].lo <= j /\ j <= chunks[k].hi}

\* C11: at no point are more than the configured job_limit jobs in the
\* Submitted/Running state.
C11_ActiveWithinLimit == ActiveJobs <= cfg.job_limit

\* C12: no job is ever in two chunks, every chunk holds between 1 and
\* chunk_size jobs of the batch, and when the scheduler has terminated every
\* job is in exactly one chunk and ceil(N/chunk_size) chunks were created.
C12_ChunksPartition ==
    /\ \A k \in 1..Len(chunks) :
          /\ 1 <= chunks[k].lo /\ chunks[k].hi <= cfg.n
          /\ chunks[k].hi - chunks[k].lo + 1 \in 1..cfg.chunk_size
    /\ \A j \in 1..cfg.n : Cardinality(ChunksOf(j)) <= 1
    /\ schedpc = "terminated" =>
          /\ \A j \in 1..cfg.n : Cardinality(ChunksOf(j)) = 1
          /\ Len(chunks) = (cfg.n + cfg.chunk_size - 1) \div cfg.chunk_size

C12_Witness ==
    /\ schedpc = "terminated" /\ cfg.n = 3 /\ cfg.chunk_size = 2
    /\ Len(chunks) = 2 /\ chunks[2].lo = 3 /\ chunks[2].hi = 3

\* C13: with 300 jobs, chunk_size 100 and job_limit 200, two chunks are
\* submitted before the first poll; the third is submitted only after a poll
\* found an id absent and the active count is below 200; and a poll that
\* finds an id absent while two chunks exist leads back to the loop head
\* with fewer than 200 active jobs, where the third chunk can be submitted.
C13_Throttling ==
    /\ []((Scenario /\ ~polled) => Len(chunks) <= 2)
    /\ [][(Scenario /\ ~polled /\ polled') => Len(chunks) = 2]_vars
    /\ [][(Scenario /\ Len(chunks) = 2 /\ Len(chunks') = 3)
            => (polled /\ Done # {} /\ ActiveJobs < 200)]_vars
    /\ [][(Scenario /\ Len(chunks) = 2 /\ schedpc = "poll" /\ schedpc' # "poll"
             /\ treated' # {} /\ abortCause' # "status")
            => (schedpc' = "head" /\ ActiveJobs' < 200)]_vars
    /\ []((Scenario /\ Len(chunks) = 2 /\ schedpc = "submit" /\ ActiveJobs < 200)
            => ENABLED SubmitChunk)

\* C14: the loop ends only by terminating (unless a submission or the status
\* call fails), and it has terminated only when nothing is pending, no chunk
\* has an outstanding id and every job has been collected.
C14_Terminates ==
    /\ schedpc = "panicked" => abortCause \in {"submit", "status"}
    /\ schedpc = "terminated" =>
          /\ pending = 0 /\ Outstanding = {}
          /\ \A j \in 1..cfg.n : ChunksOf(j) \subseteq Done /\ ChunksOf(j) # {}

\* C15: every job of a chunk that a poll treated as finished has exactly one
\* recorded outcome, a JobResult or a JobError, and at termination every job
\* of the batch has exactly one.
C15_FailureIsolated ==
    /\ \A j \in JobsOf(treated) :
          nrecorded[j] = 1 /\ outcomes[j] \in {"result", "error"}
    /\ schedpc = "terminated" =>
          \A j \in 1..cfg.n : nrecorded[j] = 1 /\ outcomes[j] \in {"result", "error"}

\* C16: a queue constructed with no_del = true sends no file to the Dump;
\* one constructed with no_del = false has sent exactly the associated files
\* of the jobs of the chunks found finished.
C16_NoDelHonoured ==
    /\ cfg.no_del => dumped = {}
    /\ ~cfg.no_del =>
          dumped = UNION {AssociatedFiles(cfg, j) : j \in JobsOf(Done)}

\* C20: a Pbs poll whose status output has no dashed divider line (the text
\* holds no run of 11 dashes) does not fail in status, and treats every chunk
\* that was outstanding as finished.
C20_NoDividerAllFinished ==
    [][(cfg.backend = "pbs" /\ schedpc = "poll" /\ schedpc' # "poll"
          /\ ~Contains(QstatText(queued', pollForm'), Dashes(11)))
        => (abortCause' # "status" /\ treated' = Outstanding)]_vars

C20_Witness ==
    /\ cfg.backend = "pbs" /\ cfg.program = "mopac" /\ pollForm = "header"
    /\ schedpc = "head" /\ Len(chunks) = 2 /\ treated = {1, 2} /\ Done = {1, 2}

====
